---- MODULE Spec2Model ----
(***************************************************************************)
(* Ban table model of src/qt/bantablemodel.cpp: the cached, optionally     *)
(* sorted snapshot of the node's ban map (BanTablePriv), the table model   *)
(* accessors built on it (BanTableModel), and the duration formatter       *)
(* (BanTablePriv::remainingTime).                                          *)
(***************************************************************************)
EXTENDS Integers, Sequences, FiniteSets, TLC

VARIABLES
    backend,        \* the node's ban map: subnet -> CBanEntry (what getBanned returns)
    banMap,         \* refreshBanlist's local banMap: the map fetched by the last refresh
    cachedBanlist,  \* BanTablePriv::cachedBanlist
    sortColumn,     \* BanTablePriv::sortColumn
    sortOrder,      \* BanTablePriv::sortOrder
    aborted,        \* the process hit assert(false) or crashed
    heldIndex,      \* the QModelIndex the view obtained from index() and still holds
    ret,            \* what the last call did: a node operation, refresh, sort or an accessor
    fmtSeconds,     \* argument of the remainingTime call under test
    fmtResult,      \* its return value
    fmtDone         \* whether the call has returned

vars == <<backend, banMap, cachedBanlist, sortColumn, sortOrder, aborted,
          heldIndex, ret, fmtSeconds, fmtResult, fmtDone>>

cacheVars == <<backend, banMap, cachedBanlist, sortColumn, sortOrder, aborted>>
fmtVars == <<fmtSeconds, fmtResult, fmtDone>>

-----------------------------------------------------------------------------
(* Bounds *)

\* number of distinct subnets the node can have banned
MaxSubnets == 2

\* The subnets are the /8 networks 9.0.0.0/8, 10.0.0.0/8, ...: banmap_t orders
\* them by network address, their text orders them differently ("10..." < "9...").
Subnets == 9..(8 + MaxSubnets)

\* timestamps (seconds since epoch) a ban entry can carry
BanTimes == {0, 1}

CBanEntry == [nCreateTime : BanTimes, nBanUntil : BanTimes]

CCombinedBan == [subnet : Subnets, banEntry : CBanEntry]

BanMaps == UNION {[S -> CBanEntry] : S \in SUBSET Subnets}

-----------------------------------------------------------------------------
(* Columns and sort orders *)

Address == 0
Bancreate == 1
Bantime == 2
Bandur == 3
remain == 4

\* columns << "IP/Netmask" << "Ban Created" << "Banned Until" << "Duration" << "Time Remaining"
columns == <<"IP/Netmask", "Ban Created", "Banned Until", "Duration", "Time Remaining">>

ColumnIndex == {Address, Bancreate, Bantime, Bandur, remain}

AscendingOrder == "AscendingOrder"
DescendingOrder == "DescendingOrder"
SortOrders == {AscendingOrder, DescendingOrder}

-----------------------------------------------------------------------------
(* Subnet text and string comparison *)

\* decimal digits of n as character codes
RECURSIVE Digits(_)
Digits(n) == IF n < 10 THEN <<48 + n>> ELSE Digits(n \div 10) \o <<48 + (n % 10)>>

\* CSubNet::ToString of the /8 network with first octet subnet: "<octet>.0.0.0/8"
subnet_ToString(subnet) == Digits(subnet) \o <<46, 48, 46, 48, 46, 48, 47, 56>>

\* std::string::compare: negative, zero or positive
RECURSIVE compare(_, _)
compare(a, b) ==
    IF a = <<>> /\ b = <<>> THEN 0
    ELSE IF a = <<>> THEN -1
    ELSE IF b = <<>> THEN 1
    ELSE IF Head(a) < Head(b) THEN -1
    ELSE IF Head(a) > Head(b) THEN 1
    ELSE compare(Tail(a), Tail(b))

-----------------------------------------------------------------------------
(* BannedNodeLessThan and the stable sort *)

\* the switch has no case for the column: control reaches assert(false)
ComparatorAsserts(column) == column \notin ColumnIndex

\* mutant: the descending order does not swap the operands
BannedNodeLessThanNoSwap(column, order, left, right) ==
    CASE column = Address ->
            compare(subnet_ToString(left.subnet), subnet_ToString(right.subnet)) < 0
      [] column = Bancreate -> left.banEntry.nCreateTime < right.banEntry.nCreateTime
      [] column = Bantime -> left.banEntry.nBanUntil < right.banEntry.nBanUntil
      [] column = Bandur ->
            (left.banEntry.nBanUntil - left.banEntry.nCreateTime)
                < (right.banEntry.nBanUntil - right.banEntry.nCreateTime)
      [] column = remain -> left.banEntry.nBanUntil < right.banEntry.nBanUntil
      [] OTHER -> FALSE

BannedNodeLessThan(column, order, left, right) ==
    LET pLeft == IF order = DescendingOrder THEN right ELSE left
        pRight == IF order = DescendingOrder THEN left ELSE right
    IN  CASE column = Address ->
                compare(subnet_ToString(pLeft.subnet), subnet_ToString(pRight.subnet)) < 0
          [] column = Bancreate ->
                pLeft.banEntry.nCreateTime < pRight.banEntry.nCreateTime
          [] column = Bantime ->
                pLeft.banEntry.nBanUntil < pRight.banEntry.nBanUntil
          [] column = Bandur ->
                (pLeft.banEntry.nBanUntil - pLeft.banEntry.nCreateTime)
                    < (pRight.banEntry.nBanUntil - pRight.banEntry.nCreateTime)
          [] column = remain ->
                pLeft.banEntry.nBanUntil < pRight.banEntry.nBanUntil
          [] OTHER -> FALSE

\* mutant: val also moves past the elements it is equal to (an unstable sort)
RECURSIVE LinearInsertUnstable(_, _, _, _)
LinearInsertUnstable(prefix, val, column, order) ==
    IF prefix # <<>> /\ ~BannedNodeLessThan(column, order, prefix[Len(prefix)], val)
    THEN Append(LinearInsertUnstable(SubSeq(prefix, 1, Len(prefix) - 1), val, column, order),
                prefix[Len(prefix)])
    ELSE Append(prefix, val)

\* one insertion step of the stable sort: val moves towards the front past
\* every element it is less than, and stops at the first it is not less than
RECURSIVE LinearInsert(_, _, _, _)
LinearInsert(prefix, val, column, order) ==
    IF prefix # <<>> /\ BannedNodeLessThan(column, order, val, prefix[Len(prefix)])
    THEN Append(LinearInsert(SubSeq(prefix, 1, Len(prefix) - 1), val, column, order),
                prefix[Len(prefix)])
    ELSE Append(prefix, val)

RECURSIVE stable_sort(_, _, _)
stable_sort(list, column, order) ==
    IF Len(list) <= 1 THEN list
    ELSE LinearInsert(stable_sort(SubSeq(list, 1, Len(list) - 1), column, order),
                      list[Len(list)], column, order)

-----------------------------------------------------------------------------
(* BanTablePriv *)

MinKey(m) == CHOOSE s \in DOMAIN m : \A t \in DOMAIN m : s <= t

\* for (const auto& entry : banMap) cachedBanlist.append(...): in the map's key order
RECURSIVE AppendAll(_, _)
AppendAll(list, m) ==
    IF DOMAIN m = {} THEN list
    ELSE LET s == MinKey(m)
             banEntry == [subnet |-> s, banEntry |-> m[s]]
         IN  AppendAll(Append(list, banEntry), [t \in DOMAIN m \ {s} |-> m[t]])

\* mutant: the rows of the previous snapshot are kept
clearKeeps(list) == list

\* cachedBanlist.clear()
clear(list) == <<>>

\* the comparator is called (two rows or more) and has no case for the column
SortAsserts(list, column) ==
    column >= 0 /\ Len(list) >= 2 /\ ComparatorAsserts(column)

\* the cache after refreshBanlist, given the cache before and the fetched map
refreshBanlist(cached, m, column, order) ==
    LET list == AppendAll(clear(cached), m)
    IN  IF column >= 0 /\ ~SortAsserts(list, column)
        THEN stable_sort(list, column, order)
        ELSE list

size == Len(cachedBanlist)

rowCount == size

\* mutant: the panel is shown even without a banned peer
shouldShowAlways == size >= 0

shouldShow == size > 0

-----------------------------------------------------------------------------
(* QModelIndex *)

\* a null internalPointer
NULL == [pos |-> -1, dangling |-> FALSE]

\* QModelIndex(): row -1, column -1, no internal pointer
QModelIndex == [row |-> -1, column |-> -1, internalPointer |-> NULL]

createIndex(row, column, data) == [row |-> row, column |-> column, internalPointer |-> data]

isValid(index) == index.row >= 0 /\ index.column >= 0

\* cachedBanlist.clear() destroys the records of the snapshot: every pointer
\* into it, such as the internalPointer of an index handed out before, dangles
Invalidate(index) ==
    IF index.internalPointer = NULL THEN index
    ELSE [index EXCEPT !.internalPointer.dangling = TRUE]

-----------------------------------------------------------------------------
(* BanTablePriv::remainingTime *)

\* A QString is modelled as the sequence of its pieces: " ", a number's
\* decimal text, a unit label, ",". Each separator is one character.

arr1 == <<31536000, 2592000, 86400, 3600, 60, 1>>
arr2 == <<"Year", "Month", "Day", "Hour", "Minute", "Second">>
arr3 == <<"Years", "Months", "Days", "Hours", "Minutes", "Seconds">>
n_terms == 6

\* qint64 division and remainder truncate towards zero (divisor > 0)
Quot(a, b) == IF a >= 0 THEN a \div b ELSE -((-a) \div b)

\* mutant: a remainder that is never negative
RemFloor(a, b) == a % b

Rem(a, b) == a - b * Quot(a, b)

\* QString::number
number(n) == ToString(n)

\* mutant: the plural label whatever the value
TermTextPlural(temp, i) == <<" ", number(temp), " ", arr3[i + 1], ",">>

\* the text appended for unit i (0-based) with value temp
TermText(temp, i) ==
    IF temp = 1
    THEN <<" ", number(temp), " ", arr2[i + 1], ",">>
    ELSE <<" ", number(temp), " ", arr3[i + 1], ",">>

\* mutant: the loop stops one term late
LoopBreaksLate(degree) == degree > 2

\* if (degree > 1) break;
LoopBreaks(degree) == degree > 1

\* result.chop(n): drops the last n characters
chop(result, n) == SubSeq(result, 1, Len(result) - n)

\* the for loop, from iteration i on
RECURSIVE FormatLoop(_, _, _, _)
FormatLoop(i, degree, seconds, result) ==
    IF ~(i < n_terms) \/ LoopBreaks(degree) THEN result
    ELSE LET temp == Quot(seconds, arr1[i + 1])
         IN  FormatLoop(i + 1,
                        IF temp > 0 THEN degree + 1 ELSE degree,
                        Rem(seconds, arr1[i + 1]),
                        IF temp > 0 THEN result \o TermText(temp, i) ELSE result)

remainingTime(seconds) ==
    LET result == FormatLoop(0, 0, seconds, <<>>)
    IN  IF result # <<>> THEN chop(result, 1) ELSE result

-----------------------------------------------------------------------------
(* BanTableModel accessors *)

DisplayRole == "DisplayRole"
TextAlignmentRole == "TextAlignmentRole"
ToolTipRole == "ToolTipRole"
Roles == {DisplayRole, TextAlignmentRole, ToolTipRole}

Horizontal == "Horizontal"
Vertical == "Vertical"
Orientations == {Horizontal, Vertical}

\* rows, columns and header sections the view can ask for, in range and out of it
Rows == -1..MaxSubnets
Sections == -1..Len(columns)

\* values of GetTimeSeconds()
NowTimes == {0, 1}

\* BanTablePriv::index: a pointer to the row's record, or nullptr
priv_index(idx) ==
    IF idx >= 0 /\ idx < size THEN [pos |-> idx, dangling |-> FALSE] ELSE NULL

\* the record of an accessor call: whether its row, column or section was out
\* of range, the kind of result, the record pointer it read through, the value
Returned(call, outOfRange, kind, deref, value) ==
    [call |-> call, stale |-> FALSE, outOfRange |-> outOfRange, kind |-> kind,
     deref |-> deref, value |-> value]

\* the record of a call that returns nothing: stale says whether the cache
\* differed from the node's ban map when refresh or sort was called
Called(call, stale) ==
    [call |-> call, stale |-> stale, outOfRange |-> FALSE, kind |-> "void",
     deref |-> NULL, value |-> <<>>]

\* BanTableModel::index(row, column, parent)
index(row, column) ==
    /\ ~aborted
    /\ LET data == priv_index(row)
           result == IF data # NULL THEN createIndex(row, column, data) ELSE QModelIndex
       IN  /\ heldIndex' = result
           /\ ret' = Returned("index", row < 0 \/ row >= size \/ column \notin ColumnIndex,
                              IF isValid(result) THEN "index" ELSE "invalid index",
                              NULL, <<>>)
    /\ UNCHANGED cacheVars
    /\ UNCHANGED fmtVars

\* the DisplayRole value of a column, computed from the record read through rec
DisplayValue(column, rec, current_time) ==
    CASE column = Address -> subnet_ToString(rec.subnet)
      [] column = Bancreate -> <<rec.banEntry.nCreateTime>>
      [] column = Bantime -> <<rec.banEntry.nBanUntil>>
      [] column = Bandur ->
            remainingTime(rec.banEntry.nBanUntil - rec.banEntry.nCreateTime)
      [] column = remain -> remainingTime(rec.banEntry.nBanUntil - current_time)

\* BanTableModel::data(index, role) on the index the view holds
data(role, current_time) ==
    /\ ~aborted
    /\ LET rec == heldIndex.internalPointer
           column == heldIndex.column
           outOfRange == column \notin ColumnIndex
       IN  IF ~isValid(heldIndex)
           THEN /\ ret' = Returned("data", outOfRange, "QVariant()", NULL, <<>>)
                /\ aborted' = FALSE
           ELSE IF role = DisplayRole /\ column \in ColumnIndex /\ ~rec.dangling
           THEN /\ ret' = Returned("data", FALSE, "display", rec,
                                   DisplayValue(column, cachedBanlist[rec.pos + 1],
                                                current_time))
                /\ aborted' = FALSE
           ELSE IF role = DisplayRole /\ column \in ColumnIndex
           THEN \* rec points into a destroyed snapshot: the read is undefined, it
                \* crashes or yields whatever the memory holds
                \E crash \in BOOLEAN, garbage \in CCombinedBan :
                    /\ ret' = Returned("data", FALSE, "display", rec,
                                       IF crash THEN <<>>
                                       ELSE DisplayValue(column, garbage, current_time))
                    /\ aborted' = crash
           ELSE IF role = DisplayRole
           THEN \* no case of the switch matches: assert(false)
                /\ ret' = Returned("data", outOfRange, "assert(false)", NULL, <<>>)
                /\ aborted' = TRUE
           ELSE IF role = TextAlignmentRole /\ column \in ColumnIndex
           THEN /\ ret' = Returned("data", FALSE, "alignment", NULL, <<"AlignCenter">>)
                /\ aborted' = FALSE
           ELSE /\ ret' = Returned("data", outOfRange, "QVariant()", NULL, <<>>)
                /\ aborted' = FALSE
    /\ UNCHANGED <<backend, banMap, cachedBanlist, sortColumn, sortOrder>>
    /\ UNCHANGED heldIndex
    /\ UNCHANGED fmtVars

\* BanTableModel::headerData(section, orientation, role)
headerData(section, orientation, role) ==
    /\ ~aborted
    /\ LET outOfRange == section \notin 0..(Len(columns) - 1)
       IN  IF orientation = Horizontal /\ role = DisplayRole /\ section < Len(columns)
           THEN IF section >= 0
                THEN /\ ret' = Returned("headerData", FALSE, "header", NULL,
                                        <<columns[section + 1]>>)
                     /\ aborted' = FALSE
                ELSE \* columns[section] with a negative section: outside the list,
                     \* an assertion failure or a read of whatever lies there
                     \E crash \in BOOLEAN :
                        /\ ret' = Returned("headerData", outOfRange,
                                           "columns[section] out of range", NULL, <<>>)
                        /\ aborted' = crash
           ELSE /\ ret' = Returned("headerData", outOfRange, "QVariant()", NULL, <<>>)
                /\ aborted' = FALSE
    /\ UNCHANGED <<backend, banMap, cachedBanlist, sortColumn, sortOrder>>
    /\ UNCHANGED heldIndex
    /\ UNCHANGED fmtVars

-----------------------------------------------------------------------------
(* The node's ban map changes behind the model's back *)

EntrySet(m) == {[subnet |-> s, banEntry |-> m[s]] : s \in DOMAIN m}

RowSet(list) == {list[i] : i \in 1..Len(list)}

OutOfDate == RowSet(cachedBanlist) # EntrySet(backend)

setBan(subnet, entry) ==
    /\ ~aborted
    /\ subnet \notin DOMAIN backend
    /\ backend' = [s \in DOMAIN backend \cup {subnet} |->
                        IF s = subnet THEN entry ELSE backend[s]]
    /\ ret' = Called("setBan", FALSE)
    /\ UNCHANGED <<banMap, cachedBanlist, sortColumn, sortOrder, aborted, heldIndex>>
    /\ UNCHANGED fmtVars

unban(subnet) ==
    /\ ~aborted
    /\ subnet \in DOMAIN backend
    /\ backend' = [s \in DOMAIN backend \ {subnet} |-> backend[s]]
    /\ ret' = Called("unban", FALSE)
    /\ UNCHANGED <<banMap, cachedBanlist, sortColumn, sortOrder, aborted, heldIndex>>
    /\ UNCHANGED fmtVars

-----------------------------------------------------------------------------
(* BanTableModel::refresh and BanTableModel::sort *)

\* node.getBanned(banMap)
getBanned == backend

\* refresh() under the sort settings in force when it runs: the body of
\* refreshBanlist between layoutAboutToBeChanged and layoutChanged. The model
\* does not update the indexes handed out before.
refresh(column, order) ==
    /\ banMap' = getBanned
    /\ cachedBanlist' = refreshBanlist(cachedBanlist, getBanned, column, order)
    /\ aborted' = SortAsserts(AppendAll(clear(cachedBanlist), getBanned), column)
    /\ heldIndex' = IF size > 0 THEN Invalidate(heldIndex) ELSE heldIndex
    /\ UNCHANGED backend
    /\ UNCHANGED fmtVars

\* the timer's timeout slot, or a direct call
Refresh ==
    /\ ~aborted
    /\ refresh(sortColumn, sortOrder)
    /\ ret' = Called("refresh", OutOfDate)
    /\ UNCHANGED <<sortColumn, sortOrder>>

\* mutant: sort re-orders the rows it has and does not ask the node
sortNoRefresh(column, order) ==
    /\ ~aborted
    /\ sortColumn' = column
    /\ sortOrder' = order
    /\ cachedBanlist' = IF column >= 0 /\ ~SortAsserts(cachedBanlist, column)
                        THEN stable_sort(cachedBanlist, column, order)
                        ELSE cachedBanlist
    /\ aborted' = SortAsserts(cachedBanlist, column)
    /\ ret' = Called("sort", OutOfDate)
    /\ UNCHANGED <<backend, banMap, heldIndex>>
    /\ UNCHANGED fmtVars

sort(column, order) ==
    /\ ~aborted
    /\ sortColumn' = column
    /\ sortOrder' = order
    /\ refresh(column, order)
    /\ ret' = Called("sort", OutOfDate)

\* the sort columns the view can ask for: none (-1), the five columns, and one beyond
SortColumns == -1..Len(columns)

-----------------------------------------------------------------------------
(* Specification of the cache: the node bans and unbans, the model refreshes and sorts *)

\* the state after BanTableModel's constructor, which ends with refresh()
InitCache(m) ==
    /\ backend = m
    /\ banMap = m
    /\ sortColumn = -1
    /\ sortOrder = AscendingOrder
    /\ cachedBanlist = refreshBanlist(<<>>, m, -1, AscendingOrder)
    /\ aborted = FALSE

InitView ==
    /\ heldIndex = QModelIndex
    /\ ret = Called("BanTableModel", FALSE)

InitFmtIdle ==
    /\ fmtSeconds = 0
    /\ fmtResult = <<>>
    /\ fmtDone = FALSE

Init == (\E m \in BanMaps : InitCache(m)) /\ InitView /\ InitFmtIdle

Next ==
    \/ \E subnet \in Subnets, entry \in CBanEntry : setBan(subnet, entry)
    \/ \E subnet \in Subnets : unban(subnet)
    \/ Refresh
    \/ \E column \in SortColumns, order \in SortOrders : sort(column, order)

Spec == Init /\ [][Next]_vars

-----------------------------------------------------------------------------
(* Specification of the view: it asks for indexes, cell data and headers while
   the model refreshes and sorts *)

NextView ==
    \/ Refresh
    \/ \E column \in SortColumns, order \in SortOrders : sort(column, order)
    \/ \E row \in Rows, column \in Sections : index(row, column)
    \/ \E role \in Roles, current_time \in NowTimes : data(role, current_time)
    \/ \E section \in Sections, orientation \in Orientations, role \in Roles :
            headerData(section, orientation, role)

SpecView == Init /\ [][NextView]_vars

-----------------------------------------------------------------------------
(* Specification of the duration formatter: one call of remainingTime on each
   input of a bounded set *)

\* each unit above the second appears 0..MaxUnitCount times in an input
MaxUnitCount == 2

\* the seconds part of an input ranges over 0..MaxSeconds, past one minute
MaxSeconds == 61

FmtMagnitudes ==
    {y * arr1[1] + mo * arr1[2] + d * arr1[3] + h * arr1[4] + mi * arr1[5] + sec :
        y \in 0..MaxUnitCount, mo \in 0..MaxUnitCount, d \in 0..MaxUnitCount,
        h \in 0..MaxUnitCount, mi \in 0..MaxUnitCount, sec \in 0..MaxSeconds}

FmtInputs == FmtMagnitudes \cup {-x : x \in FmtMagnitudes}

InitFmt ==
    /\ InitCache(<<>>)
    /\ InitView
    /\ fmtSeconds \in FmtInputs
    /\ fmtResult = <<>>
    /\ fmtDone = FALSE

Format ==
    /\ ~fmtDone
    /\ fmtResult' = remainingTime(fmtSeconds)
    /\ fmtDone' = TRUE
    /\ UNCHANGED <<fmtSeconds, heldIndex, ret>>
    /\ UNCHANGED cacheVars

NextFmt == Format

SpecFmt == InitFmt /\ [][NextFmt]_vars

-----------------------------------------------------------------------------
(* Claims about the duration formatter, under SpecFmt *)

Labels == {arr2[k] : k \in 1..n_terms} \cup {arr3[k] : k \in 1..n_terms}

\* the seconds of the unit a label names
UnitOf(label) == arr1[CHOOSE k \in 1..n_terms : label \in {arr2[k], arr3[k]}]

LabelPositions(text) == {i \in 1..Len(text) : text[i] \in Labels}

CommaPositions(text) == {i \in 1..Len(text) : text[i] = ","}

\* C5: for every s >= 0 the formatted text has at most two comma-separated
\* terms, the unit of a later term is strictly smaller than the unit of an
\* earlier one, and the text never ends with a comma.
C5_AtMostTwoDecreasingTerms ==
    (fmtDone /\ fmtSeconds >= 0) =>
        /\ Cardinality(LabelPositions(fmtResult)) <= 2
        /\ Cardinality(CommaPositions(fmtResult)) <= 1
        /\ fmtResult # <<>> =>
              /\ fmtResult[Len(fmtResult)] # ","
              /\ Cardinality(CommaPositions(fmtResult))
                    = Cardinality(LabelPositions(fmtResult)) - 1
        /\ \A i, j \in LabelPositions(fmtResult) :
              i < j => UnitOf(fmtResult[i]) > UnitOf(fmtResult[j])

\* 1 day, 1 hour, 1 minute and 1 second were formatted as two terms
C5_Witness ==
    /\ fmtDone
    /\ fmtSeconds = arr1[3] + arr1[4] + arr1[5] + 1
    /\ Cardinality(LabelPositions(fmtResult)) = 2

\* the greedy decomposition, stated apart from the loop: what is left of s
\* after the first k units took their share, and the share of unit k
RECURSIVE GreedyLeft(_, _)
GreedyLeft(s, k) == IF k = 0 THEN s ELSE GreedyLeft(s, k - 1) % arr1[k]

GreedyValue(s, k) == GreedyLeft(s, k - 1) \div arr1[k]

\* the units of the first two non-zero terms
Emitted(s) ==
    LET nonZero == {k \in 1..n_terms : GreedyValue(s, k) > 0}
    IN  {k \in nonZero : Cardinality({j \in nonZero : j < k}) < 2}

ExpectedTerm(s, k) ==
    <<" ", ToString(GreedyValue(s, k)), " ",
      IF GreedyValue(s, k) = 1 THEN arr2[k] ELSE arr3[k]>>

RECURSIVE ExpectedText(_, _)
ExpectedText(s, units) ==
    IF units = {} THEN <<>>
    ELSE LET k == CHOOSE u \in units : \A v \in units : u <= v
         IN  ExpectedTerm(s, k)
                \o (IF units = {k} THEN <<>> ELSE <<",">> \o ExpectedText(s, units \ {k}))

RECURSIVE Represented(_, _)
Represented(s, units) ==
    IF units = {} THEN 0
    ELSE LET k == CHOOSE u \in units : TRUE
         IN  GreedyValue(s, k) * arr1[k] + Represented(s, units \ {k})

\* C6: for every s >= 0 the text is exactly the first two non-zero terms of
\* the greedy decomposition of s, each " <value> <label>" with the singular
\* label for value 1 and the plural otherwise; the seconds the text stands for
\* are at most s and short of s by less than the smallest unit written.
C6_FirstTwoGreedyTerms ==
    (fmtDone /\ fmtSeconds >= 0) =>
        /\ fmtResult = ExpectedText(fmtSeconds, Emitted(fmtSeconds))
        /\ Represented(fmtSeconds, Emitted(fmtSeconds)) <= fmtSeconds
        /\ \A k \in Emitted(fmtSeconds) :
              fmtSeconds - Represented(fmtSeconds, Emitted(fmtSeconds)) < arr1[k]
        /\ fmtSeconds = 1 => fmtResult = <<" ", "1", " ", "Second">>
        /\ fmtSeconds = 2 => fmtResult = <<" ", "2", " ", "Seconds">>
        /\ fmtSeconds = 90000 =>
              fmtResult = <<" ", "1", " ", "Day", ",", " ", "1", " ", "Hour">>

\* 90000 s, and 1 day 1 hour 2 minutes 61 seconds, were formatted
C6_Witness ==
    /\ fmtDone
    /\ fmtSeconds \in {90000, arr1[3] + arr1[4] + 2 * arr1[5] + 61}
    /\ fmtResult = <<" ", "1", " ", "Day", ",", " ", "1", " ", "Hour">>

\* C7: for every s <= 0 the formatter returns the empty string: no term, so
\* none with a negative value.
C7_NonPositiveIsEmpty ==
    (fmtDone /\ fmtSeconds <= 0) => fmtResult = <<>>

\* a negative duration, of more than a minute, was formatted
C7_Witness ==
    /\ fmtDone
    /\ fmtSeconds = -61
    /\ fmtResult = <<>>

-----------------------------------------------------------------------------
(* Claims about the cache, under Spec *)

\* rows 1..n hold each entry of map m once, unaltered, and nothing else
RowsAre(list, m) ==
    /\ Len(list) = Cardinality(DOMAIN m)
    /\ \A s \in DOMAIN m :
          Cardinality({i \in 1..Len(list) : list[i].subnet = s}) = 1
    /\ \A i \in 1..Len(list) :
          /\ list[i].subnet \in DOMAIN m
          /\ list[i].banEntry = m[list[i].subnet]

\* C1: after refresh() the row count is the number of entries of the node's
\* ban map and the rows read back are exactly its entries, whatever the sort
\* setting: none lost, duplicated or altered, none left from an earlier snapshot.
C1_RefreshRoundTrip ==
    /\ RowsAre(cachedBanlist, banMap)
    /\ rowCount = Cardinality(DOMAIN banMap)
    /\ ret.call \in {"BanTableModel", "refresh", "sort"} =>
          /\ banMap = backend
          /\ RowsAre(cachedBanlist, backend)

\* a refresh replaced an out-of-date snapshot by two rows or more, sorted
\* against the map's order
C1_Witness ==
    /\ ret.call = "refresh"
    /\ ret.stale
    /\ sortColumn \in ColumnIndex
    /\ rowCount >= 2
    /\ cachedBanlist[1].subnet > cachedBanlist[2].subnet

\* the key a column sorts by, for the numeric columns
SortKey(column, rec) ==
    CASE column = Bancreate -> rec.banEntry.nCreateTime
      [] column = Bantime -> rec.banEntry.nBanUntil
      [] column = Bandur -> rec.banEntry.nBanUntil - rec.banEntry.nCreateTime
      [] column = remain -> rec.banEntry.nBanUntil

\* -1, 0 or 1 as a's key is below, equal to or above b's key
KeyCompare(column, a, b) ==
    IF column = Address
    THEN compare(subnet_ToString(a.subnet), subnet_ToString(b.subnet))
    ELSE IF SortKey(column, a) < SortKey(column, b) THEN -1
    ELSE IF SortKey(column, a) > SortKey(column, b) THEN 1
    ELSE 0

\* rows with equal sort keys are in the order of the node's ban map
EqualKeysKeepMapOrder ==
    sortColumn \in ColumnIndex =>
        \A i, j \in 1..rowCount :
            (i < j /\ KeyCompare(sortColumn, cachedBanlist[i], cachedBanlist[j]) = 0)
                => cachedBanlist[i].subnet < cachedBanlist[j].subnet

\* C2: with a sort column and direction set, a refresh against unchanged data
\* yields the row sequence it had, and rows with equal sort keys keep the same
\* relative order (the map's) after every refresh, ascending or descending.
C2_StableAcrossRefreshes ==
    /\ []EqualKeysKeepMapOrder
    /\ [][(ret'.call = "refresh" /\ ~ret'.stale) => cachedBanlist' = cachedBanlist]_vars

\* a descending sort was refreshed against unchanged data with two rows of equal key
C2_Witness ==
    /\ ret.call = "refresh"
    /\ ~ret.stale
    /\ sortColumn \in ColumnIndex
    /\ sortOrder = DescendingOrder
    /\ rowCount >= 2
    /\ KeyCompare(sortColumn, cachedBanlist[1], cachedBanlist[2]) = 0

\* every adjacent pair of rows is ordered by the column's key in the direction
SortedBy(list, column, order) ==
    \A i \in 1..(Len(list) - 1) :
        IF order = AscendingOrder
        THEN KeyCompare(column, list[i], list[i + 1]) <= 0
        ELSE KeyCompare(column, list[i], list[i + 1]) >= 0

\* C3: after sort(column, order) with a valid column the cache holds exactly
\* the node's ban map as it is at the call, ordered by the column and direction.
C3_SortResynchronizes ==
    (ret.call = "sort" /\ sortColumn \in ColumnIndex) =>
        /\ RowsAre(cachedBanlist, backend)
        /\ SortedBy(cachedBanlist, sortColumn, sortOrder)

\* sort ran while the cache was out of date, and left two rows or more
C3_Witness ==
    /\ ret.call = "sort"
    /\ ret.stale
    /\ sortColumn \in ColumnIndex
    /\ rowCount >= 2

\* C4: shouldShow() is true exactly when the ban map fetched by the most
\* recent refresh was non-empty; a refresh of a sorted model against an empty
\* ban map leaves no row and shouldShow() false.
C4_ShouldShowIffBanned ==
    /\ shouldShow <=> (DOMAIN banMap # {})
    /\ (ret.call \in {"refresh", "sort"} /\ DOMAIN backend = {}) =>
          (rowCount = 0 /\ ~shouldShow)

\* a sorted model with rows was refreshed after the node lifted every ban
C4_Witness ==
    /\ ret.call = "refresh"
    /\ ret.stale
    /\ sortColumn \in ColumnIndex
    /\ DOMAIN backend = {}
    /\ ~shouldShow

\* C9: with a sort column 0..4 set, every adjacent pair of rows is ordered by
\* that column's key in the current direction (address by its text, created,
\* banned-until, duration = bannedUntil - createdAt, time-remaining by
\* bannedUntil, so as banned-until orders them); with no sort column the rows
\* are in the order of the node's ban map.
C9_ConsistentlySorted ==
    /\ sortColumn \in ColumnIndex => SortedBy(cachedBanlist, sortColumn, sortOrder)
    /\ sortColumn = remain =>
          cachedBanlist = refreshBanlist(<<>>, banMap, Bantime, sortOrder)
    /\ sortColumn < 0 =>
          \A i \in 1..(rowCount - 1) :
              cachedBanlist[i].subnet < cachedBanlist[i + 1].subnet

\* a descending sort by duration put a longer ban before a shorter one that
\* the ban map lists first
C9_Witness ==
    /\ sortColumn = Bandur
    /\ sortOrder = DescendingOrder
    /\ rowCount >= 2
    /\ KeyCompare(Bandur, cachedBanlist[1], cachedBanlist[2]) > 0
    /\ cachedBanlist[1].subnet > cachedBanlist[2].subnet

-----------------------------------------------------------------------------
(* Claims about the accessors, under SpecView *)

Accessors == {"index", "data", "headerData"}

\* C8: an accessor called with a row, column or section out of range returns
\* an invalid index or an empty value; it does not reach assert(false) and
\* does not read outside the column list.
C8_OutOfRangeIsNeutral ==
    (ret.call \in Accessors /\ ret.outOfRange) =>
        ret.kind \in {"invalid index", "QVariant()"}

\* C10: the record data() reads through the index's internal pointer is an
\* element of the current snapshot, never one of a snapshot a refresh cleared.
C10_DataReadsCurrentSnapshot ==
    (ret.call = "data" /\ ret.deref # NULL) => ~ret.deref.dangling

====
